---- MODULE Spec2Model ----
(***************************************************************************)
(* Model of generate_chats_v0.4.py: the message timeline synthesis         *)
(* (MessageGenerator.generate_random_points and its callers), the message  *)
(* assembly of ChatBuilder._generate_messages, the message count policy    *)
(* and ParticipantGenerator.generate_distant_style_ids.                    *)
(*                                                                         *)
(* Real numbers.  An offset computed by generate_random_points for the     *)
(* arguments (duration, count) is the rational x / (count + 10); the model *)
(* stores the integer x ("scaled offset", scale Den(count)).  Instants are *)
(* pairs <<seconds, microseconds>> counted from 2023-01-01T00:00:00, the   *)
(* way datetime and timedelta normalise them.                              *)
(***************************************************************************)
EXTENDS Integers, Sequences, FiniteSets, TLC

\* ------------------------------------------------------------------ bounds
MaxCount == 3
MaxChatCount == 2
MaxDepth == 2
MaxStyles == 8
MaxGauss == 60

\* durations (seconds) and start instants (seconds after 2023-01-01) tried
Durations == {0, 2, 30, 240, 86400}
Starts == {0, 1000}

\* --------------------------------------------------------------- variables
VARIABLES
    pc,           \* position of the running call
    caller,       \* "api": generate_random_message_datetimes called directly,
                  \* "chat": ChatBuilder._generate_messages,
                  \* "style" / "policy": the two pure functions
    start,        \* start instant, whole seconds
    end,          \* end instant, whole seconds
    count,        \* requested number of points
    duration,     \* time_difference passed to generate_random_points
    points,       \* local list `points` of the latest attempt (scaled)
    depth,        \* recursive calls of generate_random_points not yet returned
    mean_den,     \* mean_response_time of the latest attempt is
                  \* duration / mean_den (0 before line 394 has run)
    candidates,   \* number of values the loop 397-400 appended in it
    deltas,       \* value returned by generate_random_points, <<>> before
    timeline,     \* value returned by generate_random_message_datetimes
    messages,     \* ChatBuilder.messages
    weighted_choice, small_choice, normal_draw, \* draws of the count policy
    message_count,                              \* its return value
    n, available_ids, style_ids                 \* generate_distant_style_ids

vars == <<pc, caller, start, end, count, duration, points, depth, mean_den,
          candidates, deltas, timeline,
          messages, weighted_choice, small_choice, normal_draw, message_count,
          n, available_ids, style_ids>>

timeVars == <<start, end, count, duration, points, depth, mean_den,
              candidates, deltas, timeline, messages>>
frameVars == <<mean_den, candidates>>
policyVars == <<weighted_choice, small_choice, normal_draw, message_count>>
styleVars == <<n, available_ids, style_ids>>

\* ----------------------------------------------------------------- helpers
Max(a, b) == IF a >= b THEN a ELSE b
Min(a, b) == IF a <= b THEN a ELSE b

RECURSIVE Sum(_)
Sum(s) == IF s = <<>> THEN 0 ELSE Head(s) + Sum(Tail(s))

\* Python's None
None == <<>>

\* ------------------------------------------- generate_random_points (386-406)
over_run_count == 10
fuzz_range_min == 1
fuzz_range_max(d, c) == d - (c + (over_run_count * 2))
count_with_overrun(c) == c + over_run_count

\* scale of the stored offsets: mean_response_time = d / count_with_overrun
DenAllCandidates(c) == count_with_overrun(c) + over_run_count
Den(c) == count_with_overrun(c)
mean_response_time(d, c) == d      \* (d / Den(c)) * Den(c)

\* number of iterations of the for loop
LoopIterations(c) == count_with_overrun(c) + over_run_count

\* random.uniform(a, b) = a + (b - a) * random(): any value between a and b,
\* whichever is larger.  The samples tried: both ends and the middle.
Uniform(a, b) == {a, b, (a + b) \div 2}

\* line 399, scaled
fuzzed_time(d, c, fuzz, coin) ==
    IF coin THEN mean_response_time(d, c) + Den(c) * fuzz
            ELSE Max(mean_response_time(d, c) - Den(c) * fuzz, Den(c) * 1)

\* the values one iteration of the loop can append
DrawSet(d, c) ==
    { fuzzed_time(d, c, fuzz, coin) :
        fuzz \in Uniform(fuzz_range_min, fuzz_range_max(d, c)), coin \in BOOLEAN }

\* line 402: points[:count]
TruncateKeepAll(list, c) == list
Truncate(list, c) == SubSeq(list, 1, Min(c, Len(list)))

\* line 404: sum(points) > duration, on scaled offsets
AcceptsInverted(pts, d, c) == Sum(pts) <= d * Den(c)
Accepts(pts, d, c) == Sum(pts) > d * Den(c)

\* ------------------------------------------------ datetime and timedelta
Datetime(sec) == <<sec, 0>>

\* round(num / den) to the nearest integer, ties to even (num >= 0, den > 0)
RoundHalfEven(num, den) ==
    LET q == num \div den
        r == num % den
    IN  IF 2 * r < den THEN q
        ELSE IF 2 * r > den THEN q + 1
        ELSE IF q % 2 = 0 THEN q ELSE q + 1

\* timedelta(seconds = x / den): whole seconds (floor) and 0..999999 microseconds
Timedelta(x, den) ==
    LET q == x \div den
        r == x % den
        us == RoundHalfEven(r * 1000000, den)
    IN  IF us = 1000000 THEN <<q + 1, 0>> ELSE <<q, us>>

\* datetime + timedelta
DatetimePlus(dt, td) ==
    LET us == dt[2] + td[2]
    IN  IF us >= 1000000 THEN <<dt[1] + td[1] + 1, us - 1000000>>
                         ELSE <<dt[1] + td[1], us>>

\* a <= b on instants
DtLE(a, b) == a[1] < b[1] \/ (a[1] = b[1] /\ a[2] <= b[2])
DtLT(a, b) == a[1] < b[1] \/ (a[1] = b[1] /\ a[2] < b[2])

\* line 384
BuildTimeline(s, dl, c) ==
    [i \in 1..Len(dl) |-> DatetimePlus(Datetime(s), Timedelta(dl[i], Den(c)))]

\* ------------------------------- weighted_random_message_count (367-377)
\* int(x) for the real x = num / den: truncation toward zero
IntTrunc(num, den) ==
    IF num >= 0 THEN num \div den ELSE -((-num) \div den)

\* the normal draw random.gauss(25, 10) is the real g / 2
GaussScale == 2
GaussDraws == (-GaussScale * MaxGauss)..(GaussScale * MaxGauss)

\* line 377
ClampNoFloor(normal_choice) == Min(50, normal_choice)
Clamp(normal_choice) == Max(1, Min(50, normal_choice))

\* wc: first-stage choice in {1, 2}; sc: the small discrete choice in
\* {1, 2, 3, 4}; g: the normal draw (halves)
weighted_random_message_count(wc, sc, g) ==
    IF wc = 1 THEN sc
    ELSE Clamp(IntTrunc(g, GaussScale))

\* ---------------------------------- generate_distant_style_ids (286-296)
\* range(0, len, step) as a sequence of 0-based indices (step > 0)
Range0(len, step) ==
    [k \in 1..((len + step - 1) \div step) |-> (k - 1) * step]

StyleStepOffByOne(len, k) == (len \div k) + 1
StyleStep(len, k) == len \div k

\* lines 294-296 (n > 0, n <= len(available_ids))
SelectStyleIds(ids, k) ==
    LET step == StyleStep(Len(ids), k)
        selected_indices == Range0(Len(ids), step)
        all == [j \in 1..Len(selected_indices) |-> ids[selected_indices[j] + 1]]
    IN  SubSeq(all, 1, Min(k, Len(all)))

\* the key lists tried for STYLE_ID_TO_COLOR when it has len entries
KeyLists(len) ==
    { [i \in 1..len |-> i], [i \in 1..len |-> 10 * (len - i) + 7] }

\* --------------------------------------------- generate_message (408-473)
\* the outcomes of the status draws of one message (random.random() <
\* *_LIKELIHOOD).  `and` short-circuits: the delivered draw is made only for a
\* sent message and the read draw only for a delivered one; a draw that is
\* not made is recorded as FALSE.
StatusDraws ==
    { dr \in [sent : BOOLEAN, delivered : BOOLEAN, read : BOOLEAN,
              deleted : BOOLEAN] :
        /\ dr.delivered => dr.sent
        /\ dr.read => dr.delivered }

generate_message(ref_dt, dr) ==
    LET sent_status == dr.sent
        delivered_status == sent_status /\ dr.delivered
        read_status == delivered_status /\ dr.read
    IN  [ send_datetime    |-> IF sent_status THEN ref_dt ELSE None,
          sent_status      |-> sent_status,
          delivered_status |-> delivered_status,
          read_status      |-> read_status,
          deleted_status   |-> dr.deleted ]

\* ------------------------------------------------ list.sort(key=...) (196)
\* the sort compares keys with <; a None key among two or more raises TypeError
SortRaises(list) ==
    Len(list) >= 2 /\ \E i \in 1..Len(list) : list[i].send_datetime = None

\* insert m after every element whose key is <= its key (stable)
RECURSIVE InsertSorted(_, _)
InsertSorted(m, sorted) ==
    IF sorted = <<>> THEN <<m>>
    ELSE IF DtLT(m.send_datetime, Head(sorted).send_datetime)
         THEN <<m>> \o sorted
         ELSE <<Head(sorted)>> \o InsertSorted(m, Tail(sorted))

RECURSIVE SortFrom(_, _)
SortFrom(list, sorted) ==
    IF list = <<>> THEN sorted
    ELSE SortFrom(Tail(list), InsertSorted(Head(list), sorted))

\* the sorted list; a single message is never compared
SortBySendDatetime(list) ==
    IF Len(list) <= 1 THEN list ELSE SortFrom(list, <<>>)

\* the orders a list can be left in when the sort raises
Reorderings(list) ==
    { [i \in 1..Len(list) |-> list[f[i]]] :
        f \in { g \in [1..Len(list) -> 1..Len(list)] :
                  \A i, j \in 1..Len(list) : i # j => g[i] # g[j] } }

\* --------------------------------------------------------------- actions
\* int((end - start).total_seconds()), line 382, for whole-second instants
time_difference(s, e) == e - s

\* a direct call generate_random_message_datetimes(start, end, count):
\* lines 382-383 up to the call of generate_random_points
CallRandomMessageDatetimes ==
    /\ pc = "start" /\ caller = "api"
    /\ \E s \in Starts, d \in Durations, c \in 1..MaxCount :
          /\ start' = s
          /\ end' = s + d
          /\ count' = c
          /\ duration' = time_difference(s, s + d)
    /\ pc' = "points_call"
    /\ UNCHANGED <<caller, points, depth, deltas, timeline, messages>>
    /\ UNCHANGED frameVars
    /\ UNCHANGED policyVars /\ UNCHANGED styleVars

\* _generate_messages line 182: generate_message_timeline() without
\* arguments (355-365): the range from generate_datetime_range, the count from
\* weighted_random_message_count, then lines 382-383
generate_message_timeline ==
    /\ pc = "start" /\ caller = "chat"
    /\ \E s \in Starts, d \in Durations :
          /\ start' = s
          /\ end' = s + d
          /\ duration' = time_difference(s, s + d)
    /\ \E wc \in {1, 2}, sc \in {1, 2, 3, 4}, g \in GaussDraws :
          /\ weighted_random_message_count(wc, sc, g) <= MaxChatCount
          /\ count' = weighted_random_message_count(wc, sc, g)
    /\ pc' = "points_call"
    /\ UNCHANGED <<caller, points, depth, deltas, timeline, messages>>
    /\ UNCHANGED frameVars
    /\ UNCHANGED policyVars /\ UNCHANGED styleVars

\* one attempt of generate_random_points, lines 389-405.  The draws of the
\* first `count` iterations are enumerated; the later iterations, whose
\* entries line 402 drops unread, all append the same drawn value.
generate_random_points ==
    /\ pc = "points_call"
    /\ \E head \in [1..count -> DrawSet(duration, count)],
          rest \in DrawSet(duration, count) :
          LET drawn == [i \in 1..LoopIterations(count) |->
                           IF i <= count THEN head[i] ELSE rest]
              pts == Truncate(drawn, count)
          IN  /\ points' = pts
              /\ mean_den' = Den(count)
              /\ candidates' = Len(drawn)
              /\ IF Accepts(pts, duration, count)
                 THEN /\ deltas' = pts
                      /\ pc' = "points_returned"
                 ELSE /\ deltas' = deltas
                      /\ pc' = "points_retry"
    /\ UNCHANGED <<caller, start, end, count, duration, depth, timeline,
                   messages>>
    /\ UNCHANGED policyVars /\ UNCHANGED styleVars

\* line 406: the recursive call, a new frame with the same arguments
\* (the model follows the recursion to depth MaxDepth)
Recurse ==
    /\ pc = "points_retry"
    /\ depth < MaxDepth
    /\ depth' = depth + 1
    /\ points' = <<>>
    /\ mean_den' = 0
    /\ candidates' = 0
    /\ pc' = "points_call"
    /\ UNCHANGED <<caller, start, end, count, duration, deltas, timeline,
                   messages>>
    /\ UNCHANGED policyVars /\ UNCHANGED styleVars

\* line 406: a frame that retried returns its callee's list unchanged
ReturnFromRecursion ==
    /\ pc = "points_returned"
    /\ depth > 0
    /\ depth' = depth - 1
    /\ UNCHANGED <<pc, caller, start, end, count, duration, points, deltas,
                   timeline, messages>>
    /\ UNCHANGED frameVars
    /\ UNCHANGED policyVars /\ UNCHANGED styleVars

\* line 384: generate_random_message_datetimes builds and returns the list
generate_random_message_datetimes ==
    /\ pc = "points_returned"
    /\ depth = 0
    /\ timeline' = BuildTimeline(start, deltas, count)
    /\ pc' = "timeline_returned"
    /\ UNCHANGED <<caller, start, end, count, duration, points, depth, deltas,
                   messages>>
    /\ UNCHANGED frameVars
    /\ UNCHANGED policyVars /\ UNCHANGED styleVars

\* _generate_messages lines 184-196: one message per instant, then the sort
generate_messages ==
    /\ pc = "timeline_returned" /\ caller = "chat"
    /\ \E dr \in [1..Len(timeline) -> StatusDraws] :
          LET built == [i \in 1..Len(timeline) |->
                           generate_message(timeline[i], dr[i])]
          IN  IF SortRaises(built)
              THEN /\ messages' \in Reorderings(built)
                   /\ pc' = "TypeError"
              ELSE /\ messages' = SortBySendDatetime(built)
                   /\ pc' = "messages_done"
    /\ UNCHANGED <<caller, start, end, count, duration, points, depth, deltas,
                   timeline>>
    /\ UNCHANGED frameVars
    /\ UNCHANGED policyVars /\ UNCHANGED styleVars

Init ==
    /\ pc = "start"
    /\ caller \in {"api", "chat"}
    /\ start = 0 /\ end = 0 /\ count = 0 /\ duration = 0
    /\ points = <<>> /\ depth = 0
    /\ mean_den = 0 /\ candidates = 0
    /\ deltas = <<>> /\ timeline = <<>> /\ messages = <<>>
    /\ weighted_choice = 0 /\ small_choice = 0 /\ normal_draw = 0
    /\ message_count = 0
    /\ n = 0 /\ available_ids = <<>> /\ style_ids = <<>>

Next ==
    \/ CallRandomMessageDatetimes
    \/ generate_message_timeline
    \/ generate_random_points
    \/ Recurse
    \/ ReturnFromRecursion
    \/ generate_random_message_datetimes
    \/ generate_messages

Spec == Init /\ [][Next]_vars

\* ------------------------------------- the count policy as a pure function
InitCount ==
    /\ pc = "policy_call"
    /\ caller = "policy"
    /\ weighted_choice \in {1, 2}
    /\ small_choice \in {1, 2, 3, 4}
    /\ normal_draw \in GaussDraws
    /\ message_count = 0
    /\ start = 0 /\ end = 0 /\ count = 0 /\ duration = 0
    /\ points = <<>> /\ depth = 0
    /\ mean_den = 0 /\ candidates = 0
    /\ deltas = <<>> /\ timeline = <<>> /\ messages = <<>>
    /\ n = 0 /\ available_ids = <<>> /\ style_ids = <<>>

CallWeightedRandomMessageCount ==
    /\ pc = "policy_call"
    /\ message_count' =
          weighted_random_message_count(weighted_choice, small_choice,
                                        normal_draw)
    /\ pc' = "policy_returned"
    /\ UNCHANGED <<caller, weighted_choice, small_choice, normal_draw>>
    /\ UNCHANGED timeVars /\ UNCHANGED styleVars

NextCount == CallWeightedRandomMessageCount

SpecCount == InitCount /\ [][NextCount]_vars

\* ------------------------------- generate_distant_style_ids as a function
InitStyle ==
    /\ pc = "style_call"
    /\ caller = "style"
    /\ \E len \in 0..MaxStyles : available_ids \in KeyLists(len)
    /\ n \in 0..(MaxStyles + 1)
    /\ style_ids = <<>>
    /\ start = 0 /\ end = 0 /\ count = 0 /\ duration = 0
    /\ points = <<>> /\ depth = 0
    /\ mean_den = 0 /\ candidates = 0
    /\ deltas = <<>> /\ timeline = <<>> /\ messages = <<>>
    /\ weighted_choice = 0 /\ small_choice = 0 /\ normal_draw = 0
    /\ message_count = 0

\* lines 289-296; n = 0 divides by zero at line 294
generate_distant_style_ids ==
    /\ pc = "style_call"
    /\ IF n > Len(available_ids)
       THEN /\ pc' = "ValueError"
            /\ style_ids' = style_ids
       ELSE IF n = 0
       THEN /\ pc' = "ZeroDivisionError"
            /\ style_ids' = style_ids
       ELSE /\ pc' = "style_returned"
            /\ style_ids' = SelectStyleIds(available_ids, n)
    /\ UNCHANGED <<caller, n, available_ids>>
    /\ UNCHANGED timeVars /\ UNCHANGED policyVars

NextStyle == generate_distant_style_ids

SpecStyle == InitStyle /\ [][NextStyle]_vars

\* ================================================================ claims
Returned == pc \in {"points_returned", "timeline_returned", "messages_done",
                    "TypeError"}
TimelineBuilt == pc \in {"timeline_returned", "messages_done", "TypeError"}

\* C1: every offset of a list returned by generate_random_points(duration,
\* count) lies in the closed interval [1, duration].
C1_OffsetsWithinWindow ==
    pc = "points_returned" =>
        \A i \in 1..Len(deltas) :
            /\ deltas[i] >= 1 * Den(count)
            /\ deltas[i] <= duration * Den(count)

\* C2: every instant of the timeline returned by
\* generate_random_message_datetimes(start, end, count) lies within
\* [start, end] inclusive.
C2_TimelineWithinWindow ==
    TimelineBuilt =>
        \A i \in 1..Len(timeline) :
            /\ DtLE(Datetime(start), timeline[i])
            /\ DtLE(timeline[i], Datetime(end))

\* C3: whenever generate_random_points returns, after any number of retries,
\* the returned list has exactly count entries, and the timeline built from it
\* has exactly count instants, the i-th being start + the i-th offset.
C3_ExactCount ==
    /\ pc = "points_returned" => Len(deltas) = count
    /\ TimelineBuilt =>
          /\ Len(timeline) = count
          /\ Len(deltas) = count
          /\ \A i \in 1..count :
                timeline[i] =
                    DatetimePlus(Datetime(start), Timedelta(deltas[i], Den(count)))

C3_Witness ==
    /\ pc = "timeline_returned"
    /\ count >= 2
    /\ Len(timeline) = count
    /\ timeline[1] # timeline[2]

\* C4: every list returned by generate_random_points satisfies
\* sum(offsets) <= duration.
C4_SumWithinDuration ==
    pc = "points_returned" => Sum(deltas) <= duration * Den(count)

\* C5: when count exceeds what duration can support (count offsets of at
\* least one second do not fit), generate_random_points never returns a list:
\* it ends in an infeasibility error.
C5_InfeasibleNeverReturns ==
    count > duration => (~Returned /\ deltas = <<>>)

\* C6: when count is small relative to duration, an accepting set of draws
\* exists at every attempt (so that fair draws eventually return a list).
C6_AcceptingDrawsExist ==
    (pc = "points_call" /\ count * 10 <= duration) =>
        \E head \in [1..count -> DrawSet(duration, count)] :
            Sum(head) > duration * Den(count)

\* C7: _generate_messages completes without error for every outcome of the
\* status draws, and self.messages then holds one message per timeline
\* instant, ascending by send timestamp.
C7_MessagesBuiltAndSorted ==
    /\ pc # "TypeError"
    /\ pc = "messages_done" =>
          /\ Len(messages) = Len(timeline)
          /\ \A i \in 1..(Len(messages) - 1) :
                /\ messages[i].send_datetime # None
                /\ messages[i + 1].send_datetime # None
                /\ DtLE(messages[i].send_datetime, messages[i + 1].send_datetime)

\* C8: generate_distant_style_ids(n) raises at once when n exceeds the number
\* of available identifiers; for 1 <= n <= that number it returns exactly n
\* pairwise distinct identifiers, all of them available ones.
C8_StyleIds ==
    pc # "style_call" =>
        /\ n > Len(available_ids) => (pc = "ValueError" /\ style_ids = <<>>)
        /\ (1 <= n /\ n <= Len(available_ids)) =>
              /\ pc = "style_returned"
              /\ Len(style_ids) = n
              /\ \A i, j \in 1..Len(style_ids) :
                    i # j => style_ids[i] # style_ids[j]
              /\ \A i \in 1..Len(style_ids) :
                    \E j \in 1..Len(available_ids) :
                        style_ids[i] = available_ids[j]

C8_Witness ==
    /\ pc = "style_returned"
    /\ n >= 3
    /\ n < Len(available_ids)
    /\ Len(available_ids) % n # 0
    /\ Len(style_ids) = n

\* C9: weighted_random_message_count returns an integer in [1, 50]: the small
\* discrete choice (1..4) on the first branch, otherwise the truncated normal
\* draw clamped to [1, 50].
C9_CountInRange ==
    pc = "policy_returned" =>
        /\ message_count \in 1..50
        /\ weighted_choice = 1 =>
              (message_count \in {1, 2, 3, 4} /\ message_count = small_choice)
        /\ weighted_choice = 2 =>
              LET t == IF normal_draw >= 0
                       THEN normal_draw \div GaussScale
                       ELSE -((-normal_draw) \div GaussScale)
              IN  /\ t < 1 => message_count = 1
                  /\ t > 50 => message_count = 50
                  /\ (1 <= t /\ t <= 50) => message_count = t

C9_Witness ==
    /\ pc = "policy_returned"
    /\ weighted_choice = 2
    /\ normal_draw < 0
    /\ message_count = 1

\* C10: an attempt's truncated list is returned exactly when its sum is
\* strictly greater than duration; otherwise nothing is returned and the
\* procedure restarts with the same duration and count and an empty list.
C10_AcceptPolarity ==
    [][ /\ (pc = "points_call" /\ pc' # pc) =>
              /\ (pc' = "points_returned") <=>
                    (Sum(points') > duration * Den(count))
              /\ (pc' = "points_retry") <=>
                    (Sum(points') <= duration * Den(count))
              /\ pc' = "points_returned" => deltas' = points'
              /\ pc' = "points_retry" => deltas' = <<>>
        /\ pc = "points_retry" =>
              /\ pc' \in {"points_retry", "points_call"}
              /\ pc' = "points_call" =>
                    /\ duration' = duration /\ count' = count
                    /\ start' = start /\ end' = end
                    /\ points' = <<>> /\ deltas' = <<>>
      ]_vars

C10_Witness ==
    /\ pc = "points_returned"
    /\ depth >= 1
    /\ Sum(deltas) > duration * Den(count)
    /\ deltas = points

\* C11 (as stated): in every attempt the denominator of the expected spacing
\* equals the number of candidate offsets drawn in that attempt,
\* effective_count + M = count + 2 * M: mean = duration / (count + 2 * M).
C11_MeanOverAllCandidates ==
    pc \in {"points_returned", "points_retry"} =>
        /\ candidates = count + 2 * over_run_count
        /\ mean_den = candidates

\* C11 (amended): in every attempt count + 2 * M candidates are drawn, and the
\* expected spacing used for all of them is mean = duration / effective_count
\* = duration / (count + M): its denominator is M less than the number of
\* candidates.  Every kept offset is mean + fuzz, mean - fuzz or the floor 1.
C11_MeanOverEffectiveCount ==
    pc \in {"points_returned", "points_retry"} =>
        /\ candidates = count + 2 * over_run_count
        /\ mean_den = count + over_run_count
        /\ mean_den = candidates - over_run_count
        /\ \A i \in 1..Len(points) :
              \/ points[i] = 1 * mean_den
              \/ \E fuzz \in Uniform(fuzz_range_min,
                                     fuzz_range_max(duration, count)) :
                    \/ points[i] = duration + mean_den * fuzz
                    \/ points[i] = duration - mean_den * fuzz

C11_Witness ==
    /\ pc = "points_returned"
    /\ count >= 2
    /\ duration > 0
    /\ mean_den = count + over_run_count
    /\ candidates = mean_den + over_run_count
    /\ \E i \in 1..Len(points) : points[i] > duration

====
